---- MODULE Spec2Model ----
(***************************************************************************)
(* Model of the catalog enrichment endpoint (src/app/api/enrich/route.ts)  *)
(* and of the page that calls it.  JavaScript strings are TLA+ strings;    *)
(* the string primitives of the runtime (trim, split, includes, slice,     *)
(* toLowerCase, regular-expression matches, parseFloat, toFixed) are       *)
(* operators over their characters.  A catalog row is a function from the  *)
(* keys it has to string values.                                           *)
(***************************************************************************)
EXTENDS Integers, Sequences, FiniteSets, TLC

(***************************************************************************)
(* Bounds of the model.                                                    *)
(***************************************************************************)
MaxRows == 5
MaxRounds == 2

(***************************************************************************)
(* Program constants.                                                      *)
(***************************************************************************)
TitleWords == 10
DescChars == 200
FractionDigits == 2

(***************************************************************************)
(* String primitives of the JavaScript runtime.                            *)
(***************************************************************************)
CharAt(s, i) == IF i >= 1 /\ i <= Len(s) THEN SubSeq(s, i, i) ELSE ""

Slice(s, from, to) == SubSeq(s, from, IF to < Len(s) THEN to ELSE Len(s))

MinOf(S) == CHOOSE x \in S : \A y \in S : x <= y

MaxOf(S) == CHOOSE x \in S : \A y \in S : x >= y

UpperAZ == "ABCDEFGHIJKLMNOPQRSTUVWXYZ"

LowerAZ == "abcdefghijklmnopqrstuvwxyz"

DigitChars == "0123456789"

UpperSet == {SubSeq(UpperAZ, i, i) : i \in 1..26}

LowerSet == {SubSeq(LowerAZ, i, i) : i \in 1..26}

DigitSet == {SubSeq(DigitChars, i, i) : i \in 1..10}

LowerOf == [c \in UpperSet |-> SubSeq(LowerAZ, CHOOSE i \in 1..26 : SubSeq(UpperAZ, i, i) = c,
                                               CHOOSE i \in 1..26 : SubSeq(UpperAZ, i, i) = c)]

UpperOf == [c \in LowerSet |-> SubSeq(UpperAZ, CHOOSE i \in 1..26 : SubSeq(LowerAZ, i, i) = c,
                                               CHOOSE i \in 1..26 : SubSeq(LowerAZ, i, i) = c)]

DigitVal == [c \in DigitSet |-> (CHOOSE i \in 1..10 : SubSeq(DigitChars, i, i) = c) - 1]

IsSpace(c) == c \in {" ", "\t", "\n", "\r"}

IsDigit(c) == c \in DigitSet

IsWordChar(c) == c \in UpperSet \cup LowerSet \cup DigitSet \cup {"_"}

RECURSIVE toLowerCase(_)
toLowerCase(s) ==
  IF s = "" THEN ""
  ELSE LET c == SubSeq(s, 1, 1)
       IN (IF c \in UpperSet THEN LowerOf[c] ELSE c) \o toLowerCase(SubSeq(s, 2, Len(s)))

RECURSIVE toUpperCase(_)
toUpperCase(s) ==
  IF s = "" THEN ""
  ELSE LET c == SubSeq(s, 1, 1)
       IN (IF c \in LowerSet THEN UpperOf[c] ELSE c) \o toUpperCase(SubSeq(s, 2, Len(s)))

includes(s, t) == \E i \in 1..(Len(s) - Len(t) + 1) : SubSeq(s, i, i + Len(t) - 1) = t

trim(s) ==
  LET I == {i \in 1..Len(s) : ~IsSpace(SubSeq(s, i, i))}
  IN IF I = {} THEN "" ELSE SubSeq(s, MinOf(I), MaxOf(I))

\* s.split('\n')
RECURSIVE splitLines(_)
splitLines(s) ==
  LET I == {i \in 1..Len(s) : SubSeq(s, i, i) = "\n"}
  IN IF I = {} THEN <<s>>
     ELSE <<SubSeq(s, 1, MinOf(I) - 1)>> \o splitLines(SubSeq(s, MinOf(I) + 1, Len(s)))

\* s.split(/\s+/): a leading or trailing run of whitespace yields an empty piece
RECURSIVE splitSpaces(_)
splitSpaces(s) ==
  LET I == {i \in 1..Len(s) : IsSpace(SubSeq(s, i, i))}
  IN IF I = {} THEN <<s>>
     ELSE LET a == MinOf(I)
              J == {j \in a..Len(s) : ~IsSpace(SubSeq(s, j, j))}
              b == IF J = {} THEN Len(s) + 1 ELSE MinOf(J)
          IN <<SubSeq(s, 1, a - 1)>> \o splitSpaces(SubSeq(s, b, Len(s)))

RECURSIVE join(_, _)
join(parts, sep) ==
  IF Len(parts) = 0 THEN ""
  ELSE IF Len(parts) = 1 THEN parts[1]
  ELSE parts[1] \o sep \o join(Tail(parts), sep)

\* s.replace(/\s+/g, ' ')
collapseSpaces(s) == join(splitSpaces(s), " ")

\* s.replace(',', ''): a string pattern replaces the first occurrence only
replaceFirstComma(s) ==
  LET I == {i \in 1..Len(s) : SubSeq(s, i, i) = ","}
  IN IF I = {} THEN s
     ELSE SubSeq(s, 1, MinOf(I) - 1) \o SubSeq(s, MinOf(I) + 1, Len(s))

\* arr.filter(x => x) on an array of strings
RECURSIVE filterTruthy(_)
filterTruthy(parts) ==
  IF Len(parts) = 0 THEN << >>
  ELSE (IF parts[1] = "" THEN << >> ELSE <<parts[1]>>) \o filterTruthy(Tail(parts))

\* the last index of the run of digits that starts at i
RECURSIVE digitsEnd(_, _)
digitsEnd(s, i) == IF IsDigit(CharAt(s, i + 1)) THEN digitsEnd(s, i + 1) ELSE i

RECURSIVE Pow10(_)
Pow10(n) == IF n = 0 THEN 1 ELSE 10 * Pow10(n - 1)

RECURSIVE digitsToNat(_)
digitsToNat(s) ==
  IF s = "" THEN 0
  ELSE 10 * digitsToNat(SubSeq(s, 1, Len(s) - 1)) + DigitVal[SubSeq(s, Len(s), Len(s))]

RECURSIVE natToDigits(_)
natToDigits(n) ==
  IF n < 10 THEN SubSeq(DigitChars, n + 1, n + 1)
  ELSE natToDigits(n \div 10) \o SubSeq(DigitChars, (n % 10) + 1, (n % 10) + 1)

(***************************************************************************)
(* parseFloat(s) || 0: the value of the longest prefix of s, after leading *)
(* whitespace, that is a decimal literal (sign, digits, fraction), as the  *)
(* exact fraction num / 10^scale; 0 when there is no such prefix (NaN).    *)
(* Exponents and "Infinity" are outside the model's inputs.                *)
(***************************************************************************)
parseFloat(s) ==
  LET I == {i \in 1..Len(s) : ~IsSpace(SubSeq(s, i, i))}
      t == IF I = {} THEN "" ELSE SubSeq(s, MinOf(I), Len(s))
      neg == CharAt(t, 1) = "-"
      u == IF CharAt(t, 1) \in {"-", "+"} THEN SubSeq(t, 2, Len(t)) ELSE t
      ie == digitsEnd(u, 0)
      fe == IF CharAt(u, ie + 1) = "." THEN digitsEnd(u, ie + 1) ELSE ie
      frac == IF fe > ie + 1 THEN SubSeq(u, ie + 2, fe) ELSE ""
  IN IF ie = 0 /\ frac = ""
     THEN [neg |-> FALSE, num |-> 0, scale |-> 0]
     ELSE [neg |-> neg, num |-> digitsToNat(SubSeq(u, 1, ie) \o frac), scale |-> Len(frac)]

\* mrpOf cutting the product off after two decimals instead of rounding it
mrpOfTruncated(p) ==
  LET cents == (p.num * 125) \div Pow10(p.scale)
      unit == Pow10(FractionDigits)
      fracDigits == natToDigits(unit + (cents % unit))
  IN natToDigits(cents \div unit) \o "." \o SubSeq(fracDigits, 2, Len(fracDigits))

(***************************************************************************)
(* (price * 1.25).toFixed(2) for price = p.num / 10^p.scale > 0: the       *)
(* product num * 125 / 10^scale in hundredths, the larger neighbour on a   *)
(* tie, then the integer part, a point and two digits.                     *)
(***************************************************************************)
mrpOf(p) ==
  LET den == Pow10(p.scale)
      cents == (p.num * 250 + den) \div (2 * den)
      unit == Pow10(FractionDigits)
      fracDigits == natToDigits(unit + (cents % unit))
  IN natToDigits(cents \div unit) \o "." \o SubSeq(fracDigits, 2, Len(fracDigits))

(***************************************************************************)
(* Rows: row[k] is undefined for an absent key; undefined and '' are both  *)
(* falsy, which is all the handler asks of a value.                        *)
(***************************************************************************)
Get(row, k) == IF k \in DOMAIN row THEN row[k] ELSE ""

Put(row, k, v) == [x \in (DOMAIN row) \cup {k} |-> IF x = k THEN v ELSE row[x]]

\* a || b on strings
Or(a, b) == IF a # "" THEN a ELSE b

platforms == <<"amazon", "flipkart", "meesho", "myntra">>

commonBrands == <<"Nike", "Adidas", "Puma", "Reebok", "Levi's", "Zara", "H&M", "Generic">>

categories == <<"Shirt", "T-Shirt", "Jeans", "Shoes", "Dress", "Jacket", "Accessories">>

colors == <<"Black", "White", "Red", "Blue", "Green", "Yellow", "Pink", "Grey", "Brown", "Navy">>

materials == <<"Cotton", "Polyester", "Silk", "Wool", "Denim", "Leather", "Synthetic">>

sizeTokens == <<"XS", "S", "M", "L", "XL", "XXL", "XXXL", "28", "30", "32", "34", "36", "38", "40", "42">>

\* for (const v of list) if (lowerData.includes(v.toLowerCase())) return v; return fallback
firstMatch(list, rawData, fallback) ==
  LET lowerData == toLowerCase(rawData)
      I == {i \in 1..Len(list) : includes(lowerData, toLowerCase(list[i]))}
  IN IF I = {} THEN fallback ELSE list[MinOf(I)]

generateTitle(rawData, row) ==
  LET title == Or(Get(row, "title"), Or(Get(row, "name"), Get(row, "product_name")))
      pieces == splitSpaces(rawData)
      words == join(SubSeq(pieces, 1, IF Len(pieces) < TitleWords THEN Len(pieces) ELSE TitleWords), " ")
  IN IF title # "" THEN title ELSE Or(words, "Product")

generateDescription(rawData, row) ==
  LET desc == Or(Get(row, "description"), Get(row, "desc"))
      brand == Or(Get(row, "brand"), "Quality")
      category == Or(Get(row, "category"), "product")
      color == Get(row, "color")
      material == Get(row, "material")
  IN IF desc # "" THEN desc
     ELSE "Premium " \o brand \o " " \o category
          \o (IF color # "" THEN " in " \o color \o " color" ELSE "")
          \o (IF material # "" THEN " made with " \o material ELSE "")
          \o ". " \o Slice(rawData, 1, DescChars)

generatePlatformTitle(platform, row, rawData) ==
  LET baseTitle == Or(Get(row, "product_title"), Or(Get(row, "title"), "Product"))
      brand == Get(row, "brand")
      color == Get(row, "color")
      size == Get(row, "size")
  IN CASE platform = "amazon" ->
            collapseSpaces(trim(brand \o " " \o baseTitle \o " " \o color \o " " \o size))
       [] platform = "flipkart" ->
            collapseSpaces(trim(baseTitle \o " (" \o brand \o ") - " \o color))
       [] platform = "meesho" ->
            collapseSpaces(trim(baseTitle \o " " \o color \o " " \o size))
       [] platform = "myntra" ->
            collapseSpaces(trim(brand \o " " \o color \o " " \o baseTitle))
       [] OTHER -> baseTitle

\* the bullet and check-mark characters of the templates are written * and +
generatePlatformDescription(platform, row, rawData) ==
  LET baseDesc == Get(row, "description")
      brand == Get(row, "brand")
      material == Get(row, "material")
  IN CASE platform = "amazon" ->
            baseDesc \o "\n\nKey Features:\n* Premium Quality\n* " \o brand
                     \o " Brand\n* " \o material \o " Material\n* Fast Delivery Available"
       [] platform = "flipkart" ->
            baseDesc \o "\n\nSpecifications:\n- Brand: " \o brand
                     \o "\n- Material: " \o material \o "\n- Quality Assured"
       [] platform = "meesho" ->
            baseDesc \o "\n\n+ Best Price\n+ Quality Product\n+ Fast Shipping"
       [] platform = "myntra" ->
            baseDesc \o "\n\nProduct Details:\n* Brand: " \o brand
                     \o "\n* Material: " \o material \o "\n* Style & Comfort Combined"
       [] OTHER -> baseDesc

generateKeywords(platform, row, rawData) ==
  join(filterTruthy(<<Get(row, "brand"), Get(row, "category"), Get(row, "color"),
                      Get(row, "material"), "quality", "premium", "best", "latest",
                      "trending">>), ", ")

(***************************************************************************)
(* rawData.match(/₹?\s*(\d+(?:,\d+)*(?:\.\d{2})?)/): every match contains  *)
(* a digit and the leftmost match reaches the first digit of the text, so  *)
(* group 1 starts there; each quantifier is greedy and nothing follows the *)
(* group, so it takes the digits, then every comma followed by digits,     *)
(* then a point followed by two digits.                                    *)
(***************************************************************************)
RECURSIVE commaGroupsEnd(_, _)
commaGroupsEnd(s, e) ==
  IF CharAt(s, e + 1) = "," /\ IsDigit(CharAt(s, e + 2))
  THEN commaGroupsEnd(s, digitsEnd(s, e + 2))
  ELSE e

extractPrice(rawData) ==
  LET I == {i \in 1..Len(rawData) : IsDigit(SubSeq(rawData, i, i))}
  IN IF I = {} THEN ""
     ELSE LET start == MinOf(I)
              e1 == commaGroupsEnd(rawData, digitsEnd(rawData, start))
              e2 == IF /\ CharAt(rawData, e1 + 1) = "."
                       /\ IsDigit(CharAt(rawData, e1 + 2))
                       /\ IsDigit(CharAt(rawData, e1 + 3))
                    THEN e1 + 3 ELSE e1
          IN replaceFirstComma(SubSeq(rawData, start, e2))

extractBrand(rawData, row) ==
  IF Get(row, "brand") # "" THEN row["brand"] ELSE firstMatch(commonBrands, rawData, "Generic")

extractCategory(rawData, row) ==
  IF Get(row, "category") # "" THEN row["category"] ELSE firstMatch(categories, rawData, "General")

extractColor(rawData, row) ==
  IF Get(row, "color") # "" THEN row["color"] ELSE firstMatch(colors, rawData, "Multi")

(***************************************************************************)
(* rawData.match(/\b(XS|S|...|42)\b/i): the leftmost position with a word  *)
(* boundary before it where some alternative, tried in the listed order,   *)
(* matches ignoring case and is followed by a word boundary.               *)
(***************************************************************************)
sizeMatchAt(s, i, t) ==
  /\ ~IsWordChar(CharAt(s, i - 1))
  /\ i + Len(t) - 1 <= Len(s)
  /\ toUpperCase(SubSeq(s, i, i + Len(t) - 1)) = t
  /\ ~IsWordChar(CharAt(s, i + Len(t)))

extractSize(rawData, row) ==
  IF Get(row, "size") # "" THEN row["size"]
  ELSE LET I == {i \in 1..Len(rawData) : \E k \in 1..Len(sizeTokens) : sizeMatchAt(rawData, i, sizeTokens[k])}
       IN IF I = {} THEN "M"
          ELSE LET i == MinOf(I)
                   k == MinOf({j \in 1..Len(sizeTokens) : sizeMatchAt(rawData, i, sizeTokens[j])})
               IN toUpperCase(SubSeq(rawData, i, i + Len(sizeTokens[k]) - 1))

extractMaterial(rawData, row) ==
  IF Get(row, "material") # "" THEN row["material"] ELSE firstMatch(materials, rawData, "Cotton")

(***************************************************************************)
(* The body of catalog.map in POST, for one row and its rawInfo.           *)
(***************************************************************************)
withProductTitle(enrichedRow, rawInfo, row) ==
  IF Get(enrichedRow, "product_title") = "" /\ rawInfo # ""
  THEN Put(enrichedRow, "product_title", generateTitle(rawInfo, row))
  ELSE enrichedRow

withDescription(enrichedRow, rawInfo, row) ==
  IF Get(enrichedRow, "description") = ""
  THEN Put(enrichedRow, "description", generateDescription(rawInfo, row))
  ELSE enrichedRow

\* withPrice without its guard: the extracted price replaces the row's own
withPriceAlways(enrichedRow, rawInfo, row) ==
  Put(enrichedRow, "price", Or(extractPrice(rawInfo), Get(row, "price")))

withPrice(enrichedRow, rawInfo, row) ==
  IF Get(enrichedRow, "price") = ""
  THEN Put(enrichedRow, "price", Or(extractPrice(rawInfo), Get(row, "price")))
  ELSE enrichedRow

withMrp(enrichedRow) ==
  IF Get(enrichedRow, "mrp") = ""
  THEN LET price == parseFloat(Get(enrichedRow, "price"))
       IN Put(enrichedRow, "mrp", IF price.num > 0 /\ ~price.neg THEN mrpOf(price) ELSE "")
  ELSE enrichedRow

withPlatform(enrichedRow, platform, rawInfo) ==
  LET r1 == IF Get(enrichedRow, platform \o "_title") = ""
            THEN Put(enrichedRow, platform \o "_title",
                     generatePlatformTitle(platform, enrichedRow, rawInfo))
            ELSE enrichedRow
      r2 == IF Get(r1, platform \o "_description") = ""
            THEN Put(r1, platform \o "_description",
                     generatePlatformDescription(platform, r1, rawInfo))
            ELSE r1
  IN IF Get(r2, platform \o "_keywords") = ""
     THEN Put(r2, platform \o "_keywords", generateKeywords(platform, r2, rawInfo))
     ELSE r2

\* platforms.forEach, from the n-th platform on
RECURSIVE withPlatforms(_, _, _)
withPlatforms(enrichedRow, n, rawInfo) ==
  IF n > Len(platforms) THEN enrichedRow
  ELSE withPlatforms(withPlatform(enrichedRow, platforms[n], rawInfo), n + 1, rawInfo)

\* withCommon with stock_status assigned unguarded
withCommonRestock(enrichedRow, rawInfo, row) ==
  LET r1 == IF Get(enrichedRow, "brand") = ""
            THEN Put(enrichedRow, "brand", extractBrand(rawInfo, row)) ELSE enrichedRow
      r2 == IF Get(r1, "category") = ""
            THEN Put(r1, "category", extractCategory(rawInfo, row)) ELSE r1
      r3 == IF Get(r2, "color") = ""
            THEN Put(r2, "color", extractColor(rawInfo, row)) ELSE r2
      r4 == IF Get(r3, "size") = ""
            THEN Put(r3, "size", extractSize(rawInfo, row)) ELSE r3
      r5 == IF Get(r4, "material") = ""
            THEN Put(r4, "material", extractMaterial(rawInfo, row)) ELSE r4
  IN Put(r5, "stock_status", "In Stock")

withCommon(enrichedRow, rawInfo, row) ==
  LET r1 == IF Get(enrichedRow, "brand") = ""
            THEN Put(enrichedRow, "brand", extractBrand(rawInfo, row)) ELSE enrichedRow
      r2 == IF Get(r1, "category") = ""
            THEN Put(r1, "category", extractCategory(rawInfo, row)) ELSE r1
      r3 == IF Get(r2, "color") = ""
            THEN Put(r2, "color", extractColor(rawInfo, row)) ELSE r2
      r4 == IF Get(r3, "size") = ""
            THEN Put(r3, "size", extractSize(rawInfo, row)) ELSE r3
      r5 == IF Get(r4, "material") = ""
            THEN Put(r4, "material", extractMaterial(rawInfo, row)) ELSE r4
  IN IF Get(r5, "stock_status") = "" THEN Put(r5, "stock_status", "In Stock") ELSE r5

\* enrichRow extracting brand, category, color, size and material before the platform fields
enrichRowCommonFirst(row, rawInfo) ==
  withPlatforms(
    withCommon(
      withMrp(withPrice(withDescription(withProductTitle(row, rawInfo, row), rawInfo, row),
                        rawInfo, row)),
      rawInfo, row),
    1, rawInfo)

enrichRow(row, rawInfo) ==
  withCommon(
    withPlatforms(
      withMrp(withPrice(withDescription(withProductTitle(row, rawInfo, row), rawInfo, row),
                        rawInfo, row)),
      1, rawInfo),
    rawInfo, row)

\* rawData.split('\n').filter(line => line.trim())
rawLinesOf(text) ==
  LET lines == splitLines(text)
  IN SelectSeq(lines, LAMBDA line : trim(line) # "")

\* rawInfoOf falling back to the last raw line instead of the first
rawInfoOfLast(rawLines, index) ==
  IF index + 1 <= Len(rawLines) THEN rawLines[index + 1]
  ELSE IF Len(rawLines) >= 1 THEN rawLines[Len(rawLines)]
  ELSE ""

\* rawLines[index] || rawLines[0] || '', index counted from 0
rawInfoOf(rawLines, index) ==
  IF index + 1 <= Len(rawLines) THEN rawLines[index + 1]
  ELSE IF Len(rawLines) >= 1 THEN rawLines[1]
  ELSE ""

\* enrichAll returning the rows in reverse order
enrichAllReversed(rows, text) ==
  LET rawLines == rawLinesOf(text)
  IN [i \in 1..Len(rows) |->
        enrichRow(rows[Len(rows) + 1 - i], rawInfoOf(rawLines, Len(rows) - i))]

enrichAll(rows, text) ==
  LET rawLines == rawLinesOf(text)
  IN [i \in 1..Len(rows) |-> enrichRow(rows[i], rawInfoOf(rawLines, i - 1))]

(***************************************************************************)
(* Inputs.  A JSON value carries its type: the handler tells undefined, a  *)
(* non-array object, an array and a string apart.                          *)
(***************************************************************************)
JUndefined == [tag |-> "undefined", val |-> << >>]

JObject == [tag |-> "object", val |-> << >>]

JArray(rows) == [tag |-> "array", val |-> rows]

JString(text) == [tag |-> "string", val |-> text]

DerivedKeys ==
  {"product_title", "description", "price", "mrp", "brand", "category", "color", "size",
   "material", "stock_status"}
  \cup {platforms[i] \o suffix : i \in 1..Len(platforms),
                                  suffix \in {"_title", "_description", "_keywords"}}

CompleteRow ==
  [k \in DerivedKeys \cup {"sku"} |->
     CASE k = "price" -> "100"
       [] k = "mrp" -> "999"
       [] k = "brand" -> "Acme"
       [] k = "size" -> "7"
       [] k = "sku" -> "A-1"
       [] OTHER -> "kept " \o k]

RowSamples ==
  << << >>,
     [title |-> "Red Dress"],
     CompleteRow,
     [product_title |-> "", name |-> "Cap", price |-> "abc", brand |-> "Puma", desc |-> "Nice"],
     [price |-> "12.50", mrp |-> "", color |-> "Green", product_name |-> "Scarf"],
     [mrp |-> "50.00", size |-> "L", category |-> "Jeans"] >>

\* the catalogs are the runs of up to MaxRows consecutive rows of the samples, taken cyclically
CatalogSamples ==
  {[i \in 1..n |-> RowSamples[((first + i - 2) % Len(RowSamples)) + 1]] :
     first \in 1..Len(RowSamples), n \in 0..MaxRows}

RawSamples ==
  {"", " ", " \n\t",
   "some text",
   "Nike Blue T-Shirt M Cotton ₹1200",
   "Adidas black shoes ₹2,499.50 size 42\n \n\n  Zara red silk dress xl 12.50",
   "₹1,00,000 Levi's denim jacket\nreebok grey wool 0.99\nH&M pink polyester shirt 30 ₹-5",
   "a b c d e f g h i j k l"}

EditSamples == {"some text", "Puma white leather shoes S 799.00\n\nNavy synthetic accessories"}

NoResponse == [status |-> 0, body |-> << >>]

VARIABLES catalogData, rawData, pc, response, round

vars == <<catalogData, rawData, pc, response, round>>

\* a request body is in flight: the page's, or any other caller's
Init ==
  /\ catalogData \in {JUndefined, JObject} \cup {JArray(c) : c \in CatalogSamples}
  /\ rawData \in {JUndefined} \cup {JString(t) : t \in RawSamples}
  /\ pc = "pending"
  /\ response = NoResponse
  /\ round = 0

\* handler checking rawData before the catalog
handlerRawFirst(catalog, raw) ==
  IF raw.tag = "undefined" \/ raw.val = ""
  THEN [status |-> 400, body |-> [error |-> "Raw data is required"]]
  ELSE IF catalog.tag # "array" \/ Len(catalog.val) = 0
  THEN [status |-> 400, body |-> [error |-> "Invalid catalog data"]]
  ELSE [status |-> 200, body |-> [enrichedCatalog |-> enrichAll(catalog.val, raw.val)]]

\* the response the handler gives to a request body
handler(catalog, raw) ==
  IF catalog.tag # "array" \/ Len(catalog.val) = 0
  THEN [status |-> 400, body |-> [error |-> "Invalid catalog data"]]
  ELSE IF raw.tag = "undefined" \/ raw.val = ""
  THEN [status |-> 400, body |-> [error |-> "Raw data is required"]]
  ELSE [status |-> 200, body |-> [enrichedCatalog |-> enrichAll(catalog.val, raw.val)]]

POST ==
  /\ pc = "pending"
  /\ response' = handler(catalogData, rawData)
  /\ pc' = "responded"
  /\ UNCHANGED <<catalogData, rawData, round>>

\* the page after the fetch: if (result.enrichedCatalog) setCatalogData(result.enrichedCatalog)
enrichCatalogDone ==
  /\ pc = "responded"
  /\ catalogData' = IF "enrichedCatalog" \in DOMAIN response.body
                    THEN JArray(response.body.enrichedCatalog)
                    ELSE catalogData
  /\ pc' = "idle"
  /\ UNCHANGED <<rawData, response, round>>

\* the textarea's onChange
setRawData(text) ==
  /\ pc = "idle"
  /\ round < MaxRounds
  /\ rawData' = JString(text)
  /\ round' = round + 1
  /\ UNCHANGED <<catalogData, pc, response>>

\* the page's button: returns early without a catalog or without raw data, else posts both
enrichCatalog ==
  /\ pc = "idle"
  /\ catalogData.tag = "array" /\ Len(catalogData.val) # 0
  /\ rawData.tag = "string" /\ rawData.val # ""
  /\ pc' = "pending"
  /\ response' = NoResponse
  /\ UNCHANGED <<catalogData, rawData, round>>

Next ==
  \/ POST
  \/ enrichCatalogDone
  \/ \E text \in EditSamples : setRawData(text)
  \/ enrichCatalog

Spec == Init /\ [][Next]_vars

(***************************************************************************)
(* Properties.                                                             *)
(***************************************************************************)
Responded == pc = "responded"

ValidRequest ==
  /\ catalogData.tag = "array" /\ Len(catalogData.val) > 0
  /\ rawData.tag = "string" /\ rawData.val # ""

Succeeded == Responded /\ "enrichedCatalog" \in DOMAIN response.body

inRows == catalogData.val

outRows == response.body.enrichedCatalog

\* C1: every request that passes validation (non-empty catalog array, non-empty rawData) is
\* answered with an enrichedCatalog whose every row has all the derived keys: product_title,
\* description, price, mrp, brand, category, color, size, material, stock_status and the
\* title, description and keywords of each of the four platforms.
C1_RequiredKeys ==
  (Responded /\ ValidRequest) =>
     /\ "enrichedCatalog" \in DOMAIN response.body
     /\ \A i \in 1..Len(outRows) : DerivedKeys \subseteq DOMAIN outRows[i]

\* C2: enrichment never overwrites a field that is non-empty in the input row: the output
\* row has the same value at every key whose input value is non-empty, for any rawData,
\* and handling the request leaves the input rows as they were.
C2_NoOverwrite ==
  [][(pc = "pending" /\ pc' = "responded" /\ "enrichedCatalog" \in DOMAIN response'.body) =>
       /\ catalogData' = catalogData
       /\ \A i \in 1..Len(catalogData.val) :
            \A k \in DOMAIN catalogData.val[i] :
               catalogData.val[i][k] # "" =>
                  /\ k \in DOMAIN response'.body.enrichedCatalog[i]
                  /\ response'.body.enrichedCatalog[i][k] = catalogData.val[i][k]]_vars

\* a row with a price of its own, next to raw text with a price in it, has been enriched
C2_Witness ==
  /\ Succeeded
  /\ \E i \in 1..Len(inRows) :
       /\ Get(inRows[i], "price") = "12.50"
       /\ outRows[i]["price"] = "12.50"
       /\ extractPrice(rawInfoOf(rawLinesOf(rawData.val), i - 1)) \notin {"", "12.50"}
       /\ outRows[i] # inRows[i]

IsComplete(row) == \A k \in DerivedKeys : Get(row, k) # ""

\* C3: idempotence: a row whose derived fields are all non-empty comes back equal to the
\* input row, no key added, removed or changed, for any non-empty rawData; so a second
\* enrichment of an enriched catalog leaves such rows unchanged.
C3_Idempotent ==
  Succeeded => \A i \in 1..Len(inRows) : IsComplete(inRows[i]) => outRows[i] = inRows[i]

\* a second enrichment, with other raw text, of a row that the first one completed
C3_Witness ==
  /\ Succeeded
  /\ round >= 1
  /\ \E i \in 1..Len(inRows) :
       /\ IsComplete(inRows[i])
       /\ inRows[i]["stock_status"] = "In Stock"
       /\ inRows[i]["brand"] = "Nike"
       /\ extractBrand(rawInfoOf(rawLinesOf(rawData.val), i - 1), << >>) = "Puma"

\* C4: the enrichedCatalog has exactly as many rows as the input catalog and output row i
\* comes from input row i: it has every key of input row i and the same value wherever
\* the input value is non-empty.
C4_RowCountAndOrder ==
  Succeeded =>
     /\ Len(outRows) = Len(inRows)
     /\ \A i \in 1..Len(inRows) :
          /\ DOMAIN inRows[i] \subseteq DOMAIN outRows[i]
          /\ \A k \in DOMAIN inRows[i] : inRows[i][k] # "" => outRows[i][k] = inRows[i][k]

\* a catalog of MaxRows rows, no two neighbours alike, has been enriched
C4_Witness ==
  /\ Succeeded
  /\ Len(inRows) >= 3
  /\ Len(outRows) = Len(inRows)
  /\ \A i \in 1..(Len(inRows) - 1) : inRows[i] # inRows[i + 1]
  /\ inRows[1] # inRows[Len(inRows)]

\* m is digits, a point and exactly two digits
TwoDecimals(m) ==
  /\ Len(m) >= 4
  /\ SubSeq(m, Len(m) - 2, Len(m) - 2) = "."
  /\ \A j \in (1..Len(m)) \ {Len(m) - 2} : IsDigit(SubSeq(m, j, j))

\* m, in hundredths, is within half a hundredth of p * 1.25
MrpMatches(m, p) ==
  /\ TwoDecimals(m)
  /\ LET n == digitsToNat(SubSeq(m, 1, Len(m) - 3) \o SubSeq(m, Len(m) - 1, Len(m)))
         den == Pow10(p.scale)
         diff == 2 * n * den - 250 * p.num
     IN diff <= den /\ (0 - diff) <= den

PriceMrpRelation(row) ==
  LET p == parseFloat(Get(row, "price"))
  IN IF p.num > 0 /\ ~p.neg
     THEN MrpMatches(Get(row, "mrp"), p)
     ELSE "mrp" \in DOMAIN row /\ row["mrp"] = ""

\* C5 as stated: in every output row, when the row's price resolves to a positive number,
\* mrp is price * 1.25 written with exactly two decimal places, and when the price cannot
\* be resolved (empty or not a positive number) mrp is the empty string.  Stated for raw
\* text that has a non-blank line, where every row is given a rawInfo.
C5_PriceMrpEveryRow ==
  (Succeeded /\ rawLinesOf(rawData.val) # << >>) =>
     \A i \in 1..Len(outRows) : PriceMrpRelation(outRows[i])

\* C5 amended: the price/mrp relation holds in every output row whose input mrp is absent
\* or empty; a row whose input mrp is non-empty keeps that mrp whatever its price.
C5_PriceMrpDerived ==
  Succeeded =>
     \A i \in 1..Len(outRows) :
        IF Get(inRows[i], "mrp") = ""
        THEN PriceMrpRelation(outRows[i])
        ELSE Get(outRows[i], "mrp") = inRows[i]["mrp"]

\* one response with an mrp rounded up from a price of its row, an empty mrp next to a
\* price that is no number, and an mrp of the input kept next to a price it does not match
C5_Witness ==
  /\ Succeeded
  /\ \E i \in 1..Len(outRows) :
       /\ Get(inRows[i], "mrp") = ""
       /\ outRows[i]["price"] = "0.99"
       /\ outRows[i]["mrp"] = "1.24"
  /\ \E i \in 1..Len(outRows) :
       /\ Get(inRows[i], "mrp") = ""
       /\ outRows[i]["price"] = "abc"
       /\ outRows[i]["mrp"] = ""
  /\ \E i \in 1..Len(outRows) :
       /\ Get(inRows[i], "mrp") = "50.00"
       /\ outRows[i]["mrp"] = "50.00"
       /\ outRows[i]["price"] # "40.00"

CatalogInvalid == catalogData.tag # "array" \/ Len(catalogData.val) = 0

RawMissing == rawData.tag = "undefined" \/ rawData.val = ""

\* C6: a request whose catalog is missing, not an array or an empty array gets status 400
\* with "Invalid catalog data"; otherwise a request whose rawData is missing or empty gets
\* status 400 with "Raw data is required"; the catalog is checked first, and in both cases
\* the response has no enrichedCatalog key.
C6_ValidationErrors ==
  Responded =>
     /\ CatalogInvalid =>
          /\ response.status = 400
          /\ response.body = [error |-> "Invalid catalog data"]
     /\ (~CatalogInvalid /\ RawMissing) =>
          /\ response.status = 400
          /\ response.body = [error |-> "Raw data is required"]
     /\ (CatalogInvalid \/ RawMissing) => "enrichedCatalog" \notin DOMAIN response.body

\* an empty catalog sent without rawData has been answered with the catalog's error
C6_Witness ==
  /\ Responded
  /\ catalogData = JArray(<< >>)
  /\ rawData = JUndefined
  /\ response = [status |-> 400, body |-> [error |-> "Invalid catalog data"]]

\* C7: a blank or whitespace-only rawData sent with a non-empty catalog is treated as
\* absent: the response is the validation error 400 "Raw data is required" and not an
\* enrichedCatalog.
C7_BlankRawRejected ==
  (Responded /\ ~CatalogInvalid /\ rawData.tag = "string" /\ trim(rawData.val) = "") =>
     /\ response.status = 400
     /\ response.body = [error |-> "Raw data is required"]

\* value is the first entry of list, in declared order, that occurs in rawInfo ignoring
\* case, or the fallback when none does
FirstInList(list, value, rawInfo, fallback) ==
  LET hits == {j \in 1..Len(list) : includes(toLowerCase(rawInfo), toLowerCase(list[j]))}
  IN IF hits = {} THEN value = fallback
     ELSE \E j \in hits : value = list[j] /\ \A h \in hits : j <= h

\* C8: for catalog [{}] and rawData "Nike Blue T-Shirt M Cotton ₹1200" the output row has
\* brand Nike, color Blue, category T-Shirt, material Cotton, size M, price 1200, mrp
\* 1500.00, stock_status In Stock and non-empty title, description and keywords for each
\* platform; and every vocabulary lookup returns the first entry of its list, in declared
\* order, that occurs in rawInfo ignoring case.
C8_ScenarioNike ==
  /\ (Responded /\ catalogData = JArray(<< << >> >>)
                /\ rawData = JString("Nike Blue T-Shirt M Cotton ₹1200")) =>
        /\ "enrichedCatalog" \in DOMAIN response.body
        /\ Len(outRows) = 1
        /\ Get(outRows[1], "brand") = "Nike"
        /\ Get(outRows[1], "color") = "Blue"
        /\ Get(outRows[1], "category") = "T-Shirt"
        /\ Get(outRows[1], "material") = "Cotton"
        /\ Get(outRows[1], "size") = "M"
        /\ Get(outRows[1], "price") = "1200"
        /\ Get(outRows[1], "mrp") = "1500.00"
        /\ Get(outRows[1], "stock_status") = "In Stock"
        /\ \A n \in 1..Len(platforms) :
              \A suffix \in {"_title", "_description", "_keywords"} :
                 Get(outRows[1], platforms[n] \o suffix) # ""
  /\ Succeeded =>
        \A i \in 1..Len(outRows) :
           LET rawInfo == rawInfoOf(rawLinesOf(rawData.val), i - 1)
           IN /\ Get(inRows[i], "brand") = "" =>
                   FirstInList(commonBrands, outRows[i]["brand"], rawInfo, "Generic")
              /\ Get(inRows[i], "category") = "" =>
                   FirstInList(categories, outRows[i]["category"], rawInfo, "General")
              /\ Get(inRows[i], "color") = "" =>
                   FirstInList(colors, outRows[i]["color"], rawInfo, "Multi")
              /\ Get(inRows[i], "material") = "" =>
                   FirstInList(materials, outRows[i]["material"], rawInfo, "Cotton")

\* the line row i (counted from 0) is paired with: the i-th of the lines that are not
\* blank if there is one, else the first of them, else the empty string
PairedLine(text, i) ==
  LET nonBlank == SelectSeq(splitLines(text), LAMBDA line : trim(line) # "")
  IN IF i < Len(nonBlank) THEN nonBlank[i + 1]
     ELSE IF nonBlank # << >> THEN nonBlank[1]
     ELSE ""

\* C9: row i is enriched from the i-th non-blank line of the raw text if there is one,
\* else from the first non-blank line, else from the empty string; blank lines do not
\* shift the pairing.
C9_RawLinePairing ==
  Succeeded =>
     \A i \in 1..Len(inRows) :
        /\ outRows[i] = enrichRow(inRows[i], PairedLine(rawData.val, i - 1))
        /\ (Get(inRows[i], "description") = "" /\ Get(inRows[i], "desc") = "") =>
              \E n \in 0..Len(outRows[i]["description"]) :
                 SubSeq(outRows[i]["description"], n + 1, Len(outRows[i]["description"]))
                    = ". " \o PairedLine(rawData.val, i - 1)

\* a catalog of 5 rows against raw text of 2 non-blank lines with blank lines between
\* them: the rows at 2, 3 and 4 are described from the first line
C9_Witness ==
  /\ Succeeded
  /\ round = 0
  /\ Len(inRows) = 5
  /\ Len(splitLines(rawData.val)) > 2
  /\ Len(rawLinesOf(rawData.val)) = 2
  /\ rawLinesOf(rawData.val)[1] # rawLinesOf(rawData.val)[2]
  /\ \A i \in 3..5 :
        Get(inRows[i], "description") = "" =>
           outRows[i]["description"]
              = generateDescription(rawLinesOf(rawData.val)[1], inRows[i])
  /\ \E i \in 3..5 : Get(inRows[i], "description") = "" /\ Get(inRows[i], "desc") = ""

\* the whitespace-delimited tokens of a text
Tokens(text) == SelectSeq(splitSpaces(text), LAMBDA piece : piece # "")

\* C10: a row whose product_title is absent or empty gets as product_title the first
\* non-empty of its title, name and product_name whatever the raw text is; without these,
\* the first 10 whitespace-delimited tokens of its rawInfo joined by single spaces; and
\* "Product" when rawInfo has no token.
C10_ProductTitle ==
  Succeeded =>
     \A i \in 1..Len(inRows) :
        Get(inRows[i], "product_title") = "" =>
           LET row == inRows[i]
               own == Or(Get(row, "title"), Or(Get(row, "name"), Get(row, "product_name")))
               tokens == Tokens(rawInfoOf(rawLinesOf(rawData.val), i - 1))
               n == IF Len(tokens) < TitleWords THEN Len(tokens) ELSE TitleWords
           IN Get(outRows[i], "product_title") =
                 (IF own # "" THEN own
                  ELSE IF tokens # << >> THEN join(SubSeq(tokens, 1, n), " ")
                  ELSE "Product")

\* s with every comma removed
RECURSIVE StripCommas(_)
StripCommas(s) ==
  IF s = "" THEN ""
  ELSE (IF SubSeq(s, 1, 1) = "," THEN "" ELSE SubSeq(s, 1, 1)) \o StripCommas(SubSeq(s, 2, Len(s)))

\* the first substring of text made of digit groups separated by commas with an optional
\* fraction of two digits, or the empty string when text has no digit
PriceGroup(text) ==
  LET I == {i \in 1..Len(text) : IsDigit(SubSeq(text, i, i))}
  IN IF I = {} THEN ""
     ELSE LET e1 == commaGroupsEnd(text, digitsEnd(text, MinOf(I)))
              e2 == IF /\ CharAt(text, e1 + 1) = "."
                       /\ IsDigit(CharAt(text, e1 + 2))
                       /\ IsDigit(CharAt(text, e1 + 3))
                    THEN e1 + 3 ELSE e1
          IN SubSeq(text, MinOf(I), e2)

\* C11: for a row with no price of its own the output price is the first substring of
\* rawInfo made of digit groups optionally separated by commas with an optional 2-decimal
\* fraction, with every comma removed, so the price never contains a comma ("₹1,00,000"
\* gives price "100000" and mrp "125000.00"); without such a substring it is empty.
C11_PriceWithoutCommas ==
  Succeeded =>
     \A i \in 1..Len(inRows) :
        Get(inRows[i], "price") = "" =>
           LET rawInfo == rawInfoOf(rawLinesOf(rawData.val), i - 1)
           IN /\ "price" \in DOMAIN outRows[i]
              /\ outRows[i]["price"] = StripCommas(PriceGroup(rawInfo))
              /\ ~includes(outRows[i]["price"], ",")
              /\ (PriceGroup(rawInfo) = "1,00,000" /\ Get(inRows[i], "mrp") = "") =>
                    /\ outRows[i]["price"] = "100000"
                    /\ outRows[i]["mrp"] = "125000.00"

LacksAttributes(row) ==
  \A k \in {"brand", "category", "color", "size", "material"} : Get(row, k) = ""

StartsWith(s, prefix) == Len(s) >= Len(prefix) /\ SubSeq(s, 1, Len(prefix)) = prefix

\* the platform titles built from a base title with brand, color and size empty
BareTitle(platform, baseTitle) ==
  IF platform = "flipkart" THEN collapseSpaces(trim(baseTitle)) \o " () -"
  ELSE collapseSpaces(trim(baseTitle))

\* C12: within one row the description and every platform title, description and keywords
\* are generated before brand, category, color, size and material are extracted.  So for a
\* row that lacks those five fields in the input a synthesized description begins
\* "Premium Quality product", the generated platform titles carry no brand, color or size
\* and the generated keywords are "quality, premium, best, latest, trending", while the
\* same output row's brand, category, color, size and material are the extracted values.
C12_DerivationOrder ==
  Succeeded =>
     \A i \in 1..Len(inRows) :
        LacksAttributes(inRows[i]) =>
           LET rawInfo == rawInfoOf(rawLinesOf(rawData.val), i - 1)
               baseTitle == Or(Get(outRows[i], "product_title"),
                               Or(Get(outRows[i], "title"), "Product"))
           IN /\ (Get(inRows[i], "description") = "" /\ Get(inRows[i], "desc") = "") =>
                    StartsWith(outRows[i]["description"], "Premium Quality product. ")
              /\ \A n \in 1..Len(platforms) :
                    /\ Get(inRows[i], platforms[n] \o "_keywords") = "" =>
                          outRows[i][platforms[n] \o "_keywords"]
                             = "quality, premium, best, latest, trending"
                    /\ Get(inRows[i], platforms[n] \o "_title") = "" =>
                          outRows[i][platforms[n] \o "_title"]
                             = BareTitle(platforms[n], baseTitle)
              /\ FirstInList(commonBrands, outRows[i]["brand"], rawInfo, "Generic")
              /\ FirstInList(categories, outRows[i]["category"], rawInfo, "General")
              /\ FirstInList(colors, outRows[i]["color"], rawInfo, "Multi")
              /\ FirstInList(materials, outRows[i]["material"], rawInfo, "Cotton")
              /\ outRows[i]["size"] # ""

\* an empty row enriched from a line naming a brand, a category, a color, a size and a
\* material: they are in the row, and in none of its generated texts
C12_Witness ==
  /\ Succeeded
  /\ \E i \in 1..Len(inRows) :
       /\ inRows[i] = << >>
       /\ outRows[i]["brand"] = "Adidas"
       /\ outRows[i]["category"] = "Shoes"
       /\ outRows[i]["color"] = "Black"
       /\ outRows[i]["size"] = "42"
       /\ outRows[i]["material"] = "Cotton"
       /\ StartsWith(outRows[i]["description"], "Premium Quality product. Adidas")
       /\ outRows[i]["amazon_keywords"] = "quality, premium, best, latest, trending"
       /\ outRows[i]["flipkart_title"] = outRows[i]["product_title"] \o " () -"

====
